---- MODULE Spec2Model ----
(***************************************************************************)
(* State-machine model of the site scrape orchestration pipeline:          *)
(*   JapanDev.scrape  (filter synchronizer, card loop, detail enrichment)  *)
(*   TokyoDev.scrape  (seed collector, seed loop, detail enrichment)       *)
(*   run_scraper_task (the background task that stores the outcome)        *)
(* Browser primitives are the environment: each one either returns or      *)
(* raises, and a clicked toggle flips its class asynchronously.            *)
(***************************************************************************)
EXTENDS Integers, Sequences, FiniteSets, TLC

VARIABLES
    site,            \* request.site_name: which scraper class is dispatched
    results_wanted,  \* scraper_input.results_wanted
    remote_work,     \* scrape(remote_work=...): option strings, in request order
    seniorities,     \* scrape(seniorities=...): option strings, in request order
    is_remote,       \* scraper_input.is_remote
    unexpected_kwarg, \* request.options holds a name the scraper's scrape does not declare
    pc,              \* position of the scrape / task
    selected,        \* per toggle: its class list contains "selected"
    pending,         \* per toggle: a click was delivered, the class flip is not yet rendered
    fi,              \* index of the option _apply_filters is at, in its click plan
    attempt,         \* the retry loop's `attempt` in _click_filter
    clicks,          \* loc.click() calls issued by the current/last _click_filter call
    clickLog,        \* those calls in order: the loop's `attempt` and the `force` argument
    entrySel,        \* the toggle's state when the current/last _click_filter call began
    entryPending,    \* a flip of that toggle was still in flight at that moment
    retSel,          \* the toggle's state when the last _click_filter call returned
    ci,              \* JapanDev: job cards consumed; TokyoDev: company cards consumed
    card,            \* JapanDev: listing hints of the card being processed
    job_cards,       \* JapanDev: the `job_cards` list, as far as the loop has read it
    detail,          \* the `detail` dict of the card being processed
    pageOpen,        \* number of detail pages currently open
    networkidle,     \* the listing page has reached the "networkidle" load state
    rawSeeds,        \* TokyoDev: `seeds` before deduplication
    seeds,           \* TokyoDev: list returned by _extract_seeds_from_list_page
    unreadUrls,      \* TokyoDev: URLs of the listing rows the collector never read
    si,              \* TokyoDev: index of the seed the loop is at
    company_name,    \* TokyoDev: company_name of the company card being scanned
    ri,              \* TokyoDev: job rows consumed in the current company card
    job_list,        \* the records accumulated by scrape
    failedSeeds,     \* URLs whose detail page failed to load (goto/extract raised)
    outcome,         \* how scrape ended: "running", "returned" or "raised"
    exitWhy,         \* the exit path taken by scrape
    JOB_STORE,       \* the job store: task_id -> entry
    tasks,           \* API: the background tasks added by submit_scrape_job, by task_id
    response,        \* API: the response of the last submit_scrape_job / check_job_status
    salary_text,     \* parsers: the argument of _parse_salary_to_comp
    comp             \* parsers: which parser ran and what it returned

vars == <<site, results_wanted, remote_work, seniorities, is_remote, unexpected_kwarg, pc, selected,
          pending, fi, attempt, clicks, clickLog, entrySel, entryPending, retSel, ci, card,
          job_cards, detail, pageOpen, networkidle, rawSeeds, seeds, unreadUrls, si, company_name, ri,
          job_list, failedSeeds, outcome, exitWhy, JOB_STORE, tasks, response, salary_text,
          comp>>

\* Python's None
None == "None"

\* date.today()
Today == "today"

(***************************************************************************)
(* Bounds of the model                                                     *)
(***************************************************************************)
MaxWanted == 2
MaxCards == 2
MaxRows == 2
MaxOptions == 2

(***************************************************************************)
(* Request inputs                                                          *)
(***************************************************************************)
\* JdSeniority members used by the model, and a string that matches no member
JdSeniority == {"JUNIOR"}

JdRemoteWork == {"PARTIAL_REMOTE", "FULL_REMOTE", "ANYWHERE_IN_JAPAN", "WORLDWIDE", "NO_REMOTE"}

BadOption == "bogus"

FilterIds == JdSeniority \cup JdRemoteWork

RECURSIVE SeqsUpTo(_, _)
SeqsUpTo(S, n) ==
    IF n = 0 THEN {<<>>}
    ELSE LET shorter == SeqsUpTo(S, n - 1)
         IN shorter \cup {Append(s, x) : s \in {t \in shorter : Len(t) = n - 1}, x \in S}

\* the detail URLs a listing anchor may resolve to, as path segments
\* (urljoin(base_url, href)); the second one ends with a slash
Urls == {<<"jobs", "a">>, <<"jobs", "b", "">>}

\* text of a listing anchor / detail heading after .strip()
ListTitles == {"", "T"}

\* the dicts _extract_detail_fields may return (the fields the records are built
\* from): every field found, no field found, a blank heading with only a date
DetailDicts ==
    {[title |-> "D", location_text |-> "L", date_posted |-> "d1"],
     [title |-> None, location_text |-> None, date_posted |-> None],
     [title |-> "", location_text |-> None, date_posted |-> "d1"]}

\* no href / no URL
NoUrl == <<>>

NoCard == [title |-> None, job_url |-> NoUrl]

NoDetail == [title |-> None, location_text |-> None, date_posted |-> None]

\* the two card selectors of the card lookup
PrimarySelector == ".job-item"

SecondarySelector == ".top-jobs__job-item"

\* job_cards = []: nothing looked up yet
NoCards == [primary_matched |-> FALSE, selector |-> None, urls |-> <<>>]

(***************************************************************************)
(* Helpers                                                                 *)
(***************************************************************************)
\* Python's `a or b`: b when a is None or the empty string
Or(a, b) == IF a = None \/ a = "" THEN b ELSE a

\* _convert_to_enum: the member whose value equals the string, else ValueError
ConvertToEnum(value, enum_class) ==
    IF value \in enum_class THEN value ELSE "ValueError"

\* variant of RemoteExpansion: every member of JdRemoteWork, "No Remote" included
RemoteExpansionAll ==
    <<"PARTIAL_REMOTE", "FULL_REMOTE", "ANYWHERE_IN_JAPAN", "WORLDWIDE", "NO_REMOTE">>

\* the remote options _apply_filters clicks when only is_remote is given
RemoteExpansion == <<"PARTIAL_REMOTE", "FULL_REMOTE", "ANYWHERE_IN_JAPAN", "WORLDWIDE">>

\* the options _apply_filters passes to _click_filter, in order, each with the
\* enum class its string is converted against
ClickPlan ==
    [i \in 1..Len(remote_work) |-> [value |-> remote_work[i], enum |-> JdRemoteWork]]
    \o [i \in 1..Len(seniorities) |-> [value |-> seniorities[i], enum |-> JdSeniority]]
    \o (IF is_remote /\ remote_work = <<>>
        THEN [i \in 1..Len(RemoteExpansion) |->
                 [value |-> RemoteExpansion[i], enum |-> JdRemoteWork]]
        ELSE <<>>)

\* the toggle the current _click_filter call is about
CurId == ClickPlan[fi].value

\* number of iterations of `for attempt in range(3)`
RetryLimit == 3

\* variant of CapReached: the cap test written with > instead of >=
CapReachedLate == Len(job_list) > results_wanted

\* the cap test at the head of both enrichment loops
CapReached == Len(job_list) >= results_wanted

\* the task_id argument of the run_scraper_task call whose scrape is followed
ScrapeTask == 1

\* no submission or status query was made
ApiIdle ==
    /\ tasks = <<>>
    /\ response = [op |-> "none"]

\* salary_text=None: a text is a record, `chars` its characters when one is given
NoText == [given |-> FALSE, chars |-> <<>>]

\* no parser call was made
ParseIdle ==
    /\ salary_text = NoText
    /\ comp = [by |-> None]

(***************************************************************************)
(* Initial state: a submitted request whose background task has started    *)
(***************************************************************************)
\* scrape is entered with the request already chosen
ScrapeStart ==
    /\ pc = "call"
    /\ selected \in {f \in [FilterIds -> BOOLEAN] :
                        \A id \in FilterIds :
                            f[id] => \E i \in 1..Len(ClickPlan) : ClickPlan[i].value = id}
    /\ pending = [id \in FilterIds |-> FALSE]
    /\ fi = 1
    /\ attempt = 0
    /\ clicks = 0
    /\ clickLog = <<>>
    /\ entrySel = FALSE
    /\ entryPending = FALSE
    /\ retSel = FALSE
    /\ ci = 0
    /\ card = NoCard
    /\ job_cards = NoCards
    /\ detail = NoDetail
    /\ pageOpen = 0
    /\ networkidle = FALSE
    /\ rawSeeds = <<>>
    /\ seeds = <<>>
    /\ unreadUrls = {}
    /\ si = 1
    /\ company_name = None
    /\ ri = 0
    /\ job_list = <<>>
    /\ failedSeeds = {}
    /\ outcome = "running"
    /\ exitWhy = None
    /\ JOB_STORE = [t \in {ScrapeTask} |-> [status |-> "processing"]]
    /\ ApiIdle
    /\ ParseIdle

Init ==
    /\ site \in {"japandev", "tokyodev"}
    /\ results_wanted \in 0..MaxWanted
    /\ remote_work = <<>>
    /\ seniorities \in (IF site = "japandev"
                        THEN SeqsUpTo(JdSeniority \cup {BadOption}, MaxOptions)
                        ELSE {<<>>})
    /\ is_remote = FALSE
    /\ unexpected_kwarg \in BOOLEAN
    /\ ScrapeStart

(***************************************************************************)
(* Frames                                                                  *)
(***************************************************************************)
request == <<site, results_wanted, remote_work, seniorities, is_remote, unexpected_kwarg>>

toggles == <<selected, pending>>

clickState == <<fi, attempt, clicks, clickLog, entrySel, entryPending, retSel>>

cardState == <<ci, card, job_cards, detail, pageOpen, networkidle>>

seedState == <<rawSeeds, seeds, unreadUrls, si, company_name, ri>>

apiState == <<tasks, response>>

parseState == <<salary_text, comp>>

\* scrape ends: `return JobResponse(...)` or an exception leaving scrape
Exit(how, why) ==
    /\ outcome' = how
    /\ exitWhy' = why
    /\ pc' = "task"

\* variant of LoadFailed: the load failure is not caught and leaves scrape
LoadFailedRaises == Exit("raised", "fatal_load")

\* the except branch of the initial listing load: log, return JobResponse(jobs=[])
LoadFailed == Exit("returned", "fatal_load")

\* run_scraper_task: scrape_kwargs = request.options or {};
\* scraper.scrape(scraper_input, **scrape_kwargs). scrape declares its options by
\* name and takes no **kwargs: any other name raises TypeError at the call
TaskCall ==
    /\ pc = "call"
    /\ IF unexpected_kwarg
       THEN Exit("raised", "TypeError")
       ELSE /\ pc' = (IF site = "japandev" THEN "jd_load" ELSE "td_load")
            /\ UNCHANGED <<outcome, exitWhy>>
    /\ UNCHANGED <<request, apiState, parseState, toggles, clickState, cardState, seedState, job_list,
                   failedSeeds, JOB_STORE>>

(***************************************************************************)
(* The page: a delivered click flips the toggle's class asynchronously     *)
(***************************************************************************)
Flip ==
    /\ site = "japandev"
    /\ pc \notin {"call", "jd_load", "done"}
    /\ \E id \in FilterIds :
        /\ pending[id]
        /\ selected' = [selected EXCEPT ![id] = ~selected[id]]
        /\ pending' = [pending EXCEPT ![id] = FALSE]
    /\ UNCHANGED <<request, apiState, parseState, pc, clickState, cardState, seedState, job_list,
                   failedSeeds, outcome, exitWhy, JOB_STORE>>

(***************************************************************************)
(* JapanDev.scrape                                                         *)
(***************************************************************************)
\* page.goto(base_url); page.wait_for_selector(".filters"): on failure return no jobs
JD_Load ==
    /\ pc = "jd_load"
    /\ \/ pc' = "jd_search" /\ UNCHANGED <<outcome, exitWhy>>
       \/ LoadFailed
    /\ UNCHANGED <<request, apiState, parseState, toggles, clickState, cardState, seedState, job_list,
                   failedSeeds, JOB_STORE>>

\* _apply_filters, search term: fill, press Enter, bounded settlement wait; every
\* failure of these is swallowed
JD_Search ==
    /\ pc = "jd_search"
    /\ pc' = "jd_filter"
    /\ networkidle' \in BOOLEAN
    /\ UNCHANGED <<request, apiState, parseState, toggles, clickState, ci, card, job_cards, detail, pageOpen, seedState,
                   job_list, failedSeeds, outcome, exitWhy, JOB_STORE>>

\* variant of JD_NextFilter: the loop over the options ends one option early
JD_NextFilterSkipsLast ==
    /\ pc = "jd_filter"
    /\ IF fi >= Len(ClickPlan)
       THEN pc' = "jd_settle" /\ UNCHANGED <<outcome, exitWhy>>
       ELSE IF ConvertToEnum(ClickPlan[fi].value, ClickPlan[fi].enum) = "ValueError"
            THEN Exit("raised", "ValueError")
            ELSE pc' = "jd_check" /\ UNCHANGED <<outcome, exitWhy>>
    /\ UNCHANGED <<request, apiState, parseState, toggles, clickState, cardState, seedState, job_list,
                   failedSeeds, JOB_STORE>>

\* variant of JD_NextFilter: an option string matching no member is passed over
JD_NextFilterSkipsBad ==
    /\ pc = "jd_filter"
    /\ IF fi > Len(ClickPlan)
       THEN pc' = "jd_settle" /\ UNCHANGED <<clickState>>
       ELSE IF ConvertToEnum(ClickPlan[fi].value, ClickPlan[fi].enum) = "ValueError"
            THEN /\ fi' = fi + 1
                 /\ pc' = "jd_filter"
                 /\ UNCHANGED <<attempt, clicks, clickLog, entrySel, entryPending, retSel>>
            ELSE pc' = "jd_check" /\ UNCHANGED <<clickState>>
    /\ UNCHANGED <<request, apiState, parseState, toggles, cardState, seedState, job_list,
                   failedSeeds, outcome, exitWhy, JOB_STORE>>

\* _apply_filters, the loops over the options: convert the next option and call
\* _click_filter on it; ValueError of _convert_to_enum is not caught anywhere in scrape
JD_NextFilter ==
    /\ pc = "jd_filter"
    /\ IF fi > Len(ClickPlan)
       THEN pc' = "jd_settle" /\ UNCHANGED <<outcome, exitWhy>>
       ELSE IF ConvertToEnum(ClickPlan[fi].value, ClickPlan[fi].enum) = "ValueError"
            THEN Exit("raised", "ValueError")
            ELSE pc' = "jd_check" /\ UNCHANGED <<outcome, exitWhy>>
    /\ UNCHANGED <<request, apiState, parseState, toggles, clickState, cardState, seedState, job_list,
                   failedSeeds, JOB_STORE>>

\* _click_filter returns to _apply_filters
ClickFilterReturn(sel) ==
    /\ retSel' = sel
    /\ attempt' = 0
    /\ fi' = fi + 1
    /\ pc' = "jd_filter"

\* _click_filter, state check: wait_for(visible) and read the class; a selected
\* toggle returns at once, a raise is logged and falls through to the click loop
JD_CheckState ==
    /\ pc = "jd_check"
    /\ entrySel' = selected[CurId]
    /\ entryPending' = pending[CurId]
    /\ clicks' = 0
    /\ clickLog' = <<>>
    /\ \/ /\ selected[CurId]
          /\ ClickFilterReturn(selected[CurId])
       \/ /\ ~selected[CurId]
          /\ attempt' = 0
          /\ pc' = "jd_click"
          /\ UNCHANGED <<fi, retSel>>
       \/ /\ attempt' = 0
          /\ pc' = "jd_click"
          /\ UNCHANGED <<fi, retSel>>
    /\ UNCHANGED <<request, apiState, parseState, toggles, cardState, seedState, job_list, failedSeeds,
                   outcome, exitWhy, JOB_STORE>>

\* variant of ClickFilterRetry: the loop bound tested with > instead of >=, which
\* lets a fourth attempt start
ClickFilterRetryOneMore ==
    IF attempt + 1 > RetryLimit
    THEN ClickFilterReturn(selected[CurId])
    ELSE /\ attempt' = attempt + 1
         /\ pc' = "jd_click"
         /\ UNCHANGED <<fi, retSel>>

\* the except branch of the retry loop: next attempt, or fall out of the loop
ClickFilterRetry ==
    IF attempt + 1 >= RetryLimit
    THEN ClickFilterReturn(selected[CurId])
    ELSE /\ attempt' = attempt + 1
         /\ pc' = "jd_click"
         /\ UNCHANGED <<fi, retSel>>

\* variant of JD_Click: every attempt issues a normal click, none is forced
JD_ClickNeverForced ==
    /\ pc = "jd_click"
    /\ \/ /\ clicks' = clicks + 1
          /\ clickLog' = Append(clickLog, [attempt |-> attempt, force |-> FALSE])
          /\ selected' = [selected EXCEPT ![CurId] =
                             IF pending[CurId] THEN ~selected[CurId] ELSE selected[CurId]]
          /\ pending' = [pending EXCEPT ![CurId] = TRUE]
          /\ pc' = "jd_verify"
          /\ UNCHANGED <<fi, attempt, retSel>>
       \/ /\ ClickFilterRetry
          /\ UNCHANGED <<clicks, clickLog, toggles>>
    /\ UNCHANGED <<request, apiState, parseState, entrySel, entryPending, cardState, seedState, job_list,
                   failedSeeds, outcome, exitWhy, JOB_STORE>>

\* _click_filter, one attempt: scroll_into_view_if_needed and click (forced from
\* the second attempt on); either of them may raise before a click is delivered
JD_Click ==
    /\ pc = "jd_click"
    /\ \/ /\ clicks' = clicks + 1
          /\ clickLog' = Append(clickLog, [attempt |-> attempt, force |-> attempt > 0])
          /\ selected' = [selected EXCEPT ![CurId] =
                             IF pending[CurId] THEN ~selected[CurId] ELSE selected[CurId]]
          /\ pending' = [pending EXCEPT ![CurId] = TRUE]
          /\ pc' = "jd_verify"
          /\ UNCHANGED <<fi, attempt, retSel>>
       \/ /\ ClickFilterRetry
          /\ UNCHANGED <<clicks, clickLog, toggles>>
    /\ UNCHANGED <<request, apiState, parseState, entrySel, entryPending, cardState, seedState, job_list,
                   failedSeeds, outcome, exitWhy, JOB_STORE>>

\* _click_filter, verification: expect(loc).to_have_class(selected) within 2 s
JD_Verify ==
    /\ pc = "jd_verify"
    /\ IF selected[CurId]
       THEN ClickFilterReturn(TRUE)
       ELSE ClickFilterRetry
    /\ UNCHANGED <<request, apiState, parseState, toggles, clicks, clickLog, entrySel, entryPending, cardState,
                   seedState, job_list, failedSeeds, outcome, exitWhy, JOB_STORE>>

\* _apply_filters, last step: wait_for_load_state("networkidle") inside try/except;
\* a wait on a state already reached returns at once
JD_SettleFilters ==
    /\ pc = "jd_settle"
    /\ pc' = "jd_settle2"
    /\ networkidle' \in (IF networkidle THEN {TRUE} ELSE BOOLEAN)
    /\ fi' = 1
    /\ clicks' = 0
    /\ clickLog' = <<>>
    /\ entrySel' = FALSE
    /\ entryPending' = FALSE
    /\ retSel' = FALSE
    /\ UNCHANGED <<request, apiState, parseState, toggles, attempt, ci, card, job_cards, detail, pageOpen, seedState,
                   job_list, failedSeeds, outcome, exitWhy, JOB_STORE>>

\* scrape, after _apply_filters: the same wait again, outside any try/except.
\* Nothing after this wait reads a toggle: the model stops following the toggles
\* here (both maps go back to all-FALSE).
JD_SettleScrape ==
    /\ pc = "jd_settle2"
    /\ \/ /\ networkidle' = TRUE
          /\ pc' = "jd_cards"
          /\ selected' = [id \in FilterIds |-> FALSE]
          /\ pending' = [id \in FilterIds |-> FALSE]
          /\ UNCHANGED <<outcome, exitWhy>>
       \/ /\ ~networkidle
          /\ Exit("raised", "TimeoutError")
          /\ UNCHANGED <<networkidle, toggles>>
    /\ UNCHANGED <<request, apiState, parseState, clickState, ci, card, job_cards, detail, pageOpen, seedState,
                   job_list, failedSeeds, JOB_STORE>>

\* variant of JD_GetCards: the secondary selector is looked up whatever the primary
\* one matched, and its list is the one iterated
JD_GetCardsAlwaysSecondary ==
    /\ pc = "jd_cards"
    /\ \E matched \in BOOLEAN :
          job_cards' = [primary_matched |-> matched, selector |-> SecondarySelector,
                        urls |-> <<>>]
    /\ pc' = "jd_loop"
    /\ UNCHANGED <<request, apiState, parseState, toggles, clickState, ci, card, detail, pageOpen,
                   networkidle, seedState, job_list, failedSeeds, outcome, exitWhy, JOB_STORE>>

\* scrape: bounded wait for a card (its timeout is swallowed), then the card lists:
\* job_cards = locator(".job-item").all(), and locator(".top-jobs__job-item").all()
\* `if not job_cards`
JD_GetCards ==
    /\ pc = "jd_cards"
    /\ \E matched \in BOOLEAN :
          job_cards' = [primary_matched |-> matched,
                        selector |-> IF matched THEN PrimarySelector ELSE SecondarySelector,
                        urls |-> <<>>]
    /\ pc' = "jd_loop"
    /\ UNCHANGED <<request, apiState, parseState, toggles, clickState, ci, card, detail, pageOpen,
                   networkidle, seedState, job_list, failedSeeds, outcome, exitWhy, JOB_STORE>>

\* variant of JD_NextCard: the cap is tested at the end of the loop body, so the
\* first card is processed before any test
JD_NextCardCapAtEnd ==
    /\ pc = "jd_loop"
    /\ \/ /\ ~(job_cards.primary_matched /\ ci = 0)
          /\ Exit("returned", "exhausted")
          /\ UNCHANGED <<ci, card, job_cards>>
       \/ /\ ci < MaxCards
          /\ IF CapReached /\ ci > 0
             THEN Exit("returned", "cap") /\ UNCHANGED <<ci, card, job_cards>>
             ELSE /\ ci' = ci + 1
                  /\ UNCHANGED <<outcome, exitWhy>>
                  /\ \/ pc' = "jd_loop" /\ card' = NoCard
                     \/ \E t \in ListTitles :
                           pc' = "jd_loop" /\ card' = [title |-> t, job_url |-> NoUrl]
                     \/ \E t \in ListTitles, u \in Urls :
                           pc' = "jd_open" /\ card' = [title |-> t, job_url |-> u]
                  /\ job_cards' = [job_cards EXCEPT !.urls = Append(@, card'.job_url)]
    /\ UNCHANGED <<request, apiState, parseState, toggles, clickState, detail, pageOpen, networkidle,
                   seedState, job_list, failedSeeds, JOB_STORE>>

\* `for card in job_cards`: no card left ends the loop (a list the primary
\* selector matched holds a card); else the cap test, then the listing hints of the
\* card; a card without title element or href is skipped and a raise while reading
\* it is caught per card
JD_NextCard ==
    /\ pc = "jd_loop"
    /\ \/ /\ ~(job_cards.primary_matched /\ ci = 0)
          /\ Exit("returned", "exhausted")
          /\ UNCHANGED <<ci, card, job_cards>>
       \/ /\ ci < MaxCards
          /\ IF CapReached
             THEN Exit("returned", "cap") /\ UNCHANGED <<ci, card, job_cards>>
             ELSE /\ ci' = ci + 1
                  /\ UNCHANGED <<outcome, exitWhy>>
                  /\ \/ pc' = "jd_loop" /\ card' = NoCard
                     \/ \E t \in ListTitles :
                           pc' = "jd_loop" /\ card' = [title |-> t, job_url |-> NoUrl]
                     \/ \E t \in ListTitles, u \in Urls :
                           pc' = "jd_open" /\ card' = [title |-> t, job_url |-> u]
                  /\ job_cards' = [job_cards EXCEPT !.urls = Append(@, card'.job_url)]
    /\ UNCHANGED <<request, apiState, parseState, toggles, clickState, detail, pageOpen, networkidle,
                   seedState, job_list, failedSeeds, JOB_STORE>>

\* detail_page = setup_page(context): a raise is caught by the card's try
JD_OpenDetail ==
    /\ pc = "jd_open"
    /\ \/ pageOpen' = pageOpen + 1 /\ pc' = "jd_goto"
       \/ pc' = "jd_loop" /\ UNCHANGED pageOpen
    /\ UNCHANGED <<request, apiState, parseState, toggles, clickState, ci, card, job_cards, detail, networkidle,
                   seedState, job_list, failedSeeds, outcome, exitWhy, JOB_STORE>>

\* the dict built in the except branch when goto or extraction raises
DegradedDetail == [title |-> card.title, location_text |-> "Japan", date_posted |-> Today]

\* variant of JD_GotoDetail: close() placed after the try instead of in its finally,
\* so the except path goes on to build the record with the page still open
JD_GotoDetailNoFinally ==
    /\ pc = "jd_goto"
    /\ \/ \E d \in DetailDicts : detail' = d /\ pc' = "jd_close" /\ UNCHANGED failedSeeds
       \/ /\ detail' = DegradedDetail
          /\ failedSeeds' = failedSeeds \cup {card.job_url}
          /\ pc' = "jd_build"
    /\ UNCHANGED <<request, apiState, parseState, toggles, clickState, ci, card, job_cards, pageOpen, networkidle,
                   seedState, job_list, outcome, exitWhy, JOB_STORE>>

\* detail_page.goto(job_url); detail = _extract_detail_fields(...)
JD_GotoDetail ==
    /\ pc = "jd_goto"
    /\ \/ \E d \in DetailDicts : detail' = d /\ UNCHANGED failedSeeds
       \/ /\ detail' = DegradedDetail
          /\ failedSeeds' = failedSeeds \cup {card.job_url}
    /\ pc' = "jd_close"
    /\ UNCHANGED <<request, apiState, parseState, toggles, clickState, ci, card, job_cards, pageOpen, networkidle,
                   seedState, job_list, outcome, exitWhy, JOB_STORE>>

\* finally: detail_page.close(); a raise here is caught by the card's try
JD_CloseDetail ==
    /\ pc = "jd_close"
    /\ pageOpen' = pageOpen - 1
    /\ \/ pc' = "jd_build"
       \/ pc' = "jd_loop"
    /\ UNCHANGED <<request, apiState, parseState, toggles, clickState, ci, card, job_cards, detail, networkidle,
                   seedState, job_list, failedSeeds, outcome, exitWhy, JOB_STORE>>

\* the fields of the detail dict and of the card that the scrape above leaves out
Unfollowed == [company_name |-> None, salary_text |-> None]

\* final_title, final_company, final_location_text, the text handed to
\* _parse_salary_to_comp, and date_posted, from the detail dict d and the card's hints
JD_Merge(d, title, company) ==
    [title |-> Or(d.title, title),
     company_name |-> Or(d.company_name, company),
     location |-> Or(d.location_text, "Japan"),
     salary_text |-> d.salary_text,
     date_posted |-> Or(d.date_posted, Today)]

\* the JobPost built from the detail dict and the card's hints
JD_JobPost ==
    LET merged == JD_Merge(detail @@ Unfollowed, card.title, None)
    IN [title |-> merged.title,
        job_url |-> card.job_url,
        location |-> merged.location,
        date_posted |-> merged.date_posted]

\* variant of JD_Append: the record is put at the front of the list
JD_AppendFront ==
    /\ pc = "jd_build"
    /\ job_list' = <<JD_JobPost>> \o job_list
    /\ pc' = "jd_loop"
    /\ UNCHANGED <<request, apiState, parseState, toggles, clickState, cardState, seedState, failedSeeds,
                   outcome, exitWhy, JOB_STORE>>

\* job_list.append(JobPost(...))
JD_Append ==
    /\ pc = "jd_build"
    /\ job_list' = Append(job_list, JD_JobPost)
    /\ pc' = "jd_loop"
    /\ UNCHANGED <<request, apiState, parseState, toggles, clickState, cardState, seedState, failedSeeds,
                   outcome, exitWhy, JOB_STORE>>

(***************************************************************************)
(* TokyoDev.scrape                                                         *)
(***************************************************************************)
\* list_page.goto(url); wait_for_cloudflare_to_clear; wait_for_selector: on
\* failure return no jobs
TD_Load ==
    /\ pc = "td_load"
    /\ \/ pc' = "td_company" /\ UNCHANGED <<outcome, exitWhy>>
       \/ LoadFailed
    /\ UNCHANGED <<request, apiState, parseState, toggles, clickState, cardState, seedState, job_list,
                   failedSeeds, JOB_STORE>>

\* company names shown on the listing (None: reading `h3 a` raised)
Companies == {None, "A", "B"}

\* _extract_seeds_from_list_page, `for card in company_cards`: cap test on the raw
\* seed list, company name (a raise gives None), then the card's job rows, whose
\* lookup is outside any try
TD_NextCompany ==
    /\ pc = "td_company"
    /\ \/ /\ pc' = "td_dedupe"
          /\ UNCHANGED <<ci, company_name, ri, outcome, exitWhy>>
       \/ /\ ci < MaxCards
          /\ IF Len(rawSeeds) >= results_wanted
             THEN /\ pc' = "td_dedupe"
                  /\ UNCHANGED <<ci, company_name, ri, outcome, exitWhy>>
             ELSE /\ ci' = ci + 1
                  /\ ri' = 0
                  /\ \E c \in Companies : company_name' = c
                  /\ \/ pc' = "td_row" /\ UNCHANGED <<outcome, exitWhy>>
                     \/ Exit("raised", "CardError")
    /\ UNCHANGED <<request, apiState, parseState, toggles, clickState, card, job_cards, detail, pageOpen, networkidle,
                   rawSeeds, seeds, unreadUrls, si, job_list, failedSeeds, JOB_STORE>>

\* `for item in job_items`: cap test, then the row; a row without href, or whose
\* reading raises, is skipped; else a seed is appended
TD_NextRow ==
    /\ pc = "td_row"
    /\ \/ /\ pc' = "td_company"
          /\ UNCHANGED <<ri, rawSeeds>>
       \/ /\ ri < MaxRows
          /\ IF Len(rawSeeds) >= results_wanted
             THEN pc' = "td_company" /\ UNCHANGED <<ri, rawSeeds>>
             ELSE /\ ri' = ri + 1
                  /\ pc' = "td_row"
                  /\ \/ UNCHANGED rawSeeds
                     \/ \E u \in Urls :
                           rawSeeds' = Append(rawSeeds,
                               [job_url |-> u, company_name |-> company_name])
    /\ UNCHANGED <<request, apiState, parseState, toggles, clickState, cardState, ci, company_name, seeds,
                   unreadUrls, si, job_list, failedSeeds, outcome, exitWhy, JOB_STORE>>

\* variant of Dedupe: uniq[s.job_url] = s, so the last occurrence is kept
RECURSIVE DedupeKeepLast(_, _)
DedupeKeepLast(raw, uniq) ==
    IF raw = <<>> THEN uniq
    ELSE DedupeKeepLast(Tail(raw),
            IF \E i \in 1..Len(uniq) : uniq[i].job_url = Head(raw).job_url
            THEN [i \in 1..Len(uniq) |->
                     IF uniq[i].job_url = Head(raw).job_url THEN Head(raw) ELSE uniq[i]]
            ELSE Append(uniq, Head(raw)))

\* uniq.setdefault(s.job_url, s) over the list; list(uniq.values())
RECURSIVE Dedupe(_, _)
Dedupe(raw, uniq) ==
    IF raw = <<>> THEN uniq
    ELSE Dedupe(Tail(raw),
                IF \E i \in 1..Len(uniq) : uniq[i].job_url = Head(raw).job_url
                THEN uniq
                ELSE Append(uniq, Head(raw)))

\* _extract_seeds_from_list_page returns the deduplicated list to scrape; when the
\* cap on the raw list ended the loops, the listing may hold rows that were never read
TD_Dedupe ==
    /\ pc = "td_dedupe"
    /\ seeds' = Dedupe(rawSeeds, <<>>)
    /\ unreadUrls' \in (IF Len(rawSeeds) >= results_wanted THEN SUBSET Urls ELSE {{}})
    /\ si' = 1
    /\ ci' = 0
    /\ ri' = 0
    /\ company_name' = None
    /\ pc' = "td_loop"
    /\ UNCHANGED <<request, apiState, parseState, toggles, clickState, card, job_cards, detail, pageOpen, networkidle,
                   rawSeeds, job_list, failedSeeds, outcome, exitWhy, JOB_STORE>>

\* `for seed in seeds`: no seed left ends the loop; else the cap test
TD_NextSeed ==
    /\ pc = "td_loop"
    /\ IF si > Len(seeds)
       THEN Exit("returned", "exhausted")
       ELSE IF CapReached
            THEN Exit("returned", "cap")
            ELSE pc' = "td_open" /\ UNCHANGED <<outcome, exitWhy>>
    /\ UNCHANGED <<request, apiState, parseState, toggles, clickState, cardState, seedState, job_list,
                   failedSeeds, JOB_STORE>>

\* detail_page = setup_page(context), before the try: a raise leaves scrape
TD_OpenDetail ==
    /\ pc = "td_open"
    /\ \/ pageOpen' = pageOpen + 1 /\ pc' = "td_goto" /\ UNCHANGED <<outcome, exitWhy>>
       \/ Exit("raised", "OpenError") /\ UNCHANGED pageOpen
    /\ UNCHANGED <<request, apiState, parseState, toggles, clickState, ci, card, job_cards, detail, networkidle,
                   seedState, job_list, failedSeeds, JOB_STORE>>

\* str.title() of the last path segment
TitleCase(segment) ==
    CASE segment = "a" -> "A"
      [] segment = "b" -> "B"
      [] OTHER -> ""

\* seed.job_url.rsplit("/", 1)[-1].replace("-", " ").title()
SlugTitle(job_url) == TitleCase(job_url[Len(job_url)])

\* title, company_name, the city, salary_text and date_posted of the JobPost, from
\* the h1 text (None: reading it raised), header_info and the seed
TD_Merge(h1, header_info, seed) ==
    [title |-> IF h1 = None THEN SlugTitle(seed.job_url) ELSE h1,
     company_name |-> Or(header_info.company_name, seed.company_name),
     location |-> "Tokyo",
     salary_text |-> Or(header_info.salary_text, seed.salary_text_hint),
     date_posted |-> Today]

\* the JobPost built for a seed from the detail title
TD_JobPost(title) ==
    [title |-> title,
     job_url |-> seeds[si].job_url,
     location |-> "Tokyo",
     date_posted |-> Today]

\* the try body: goto, Cloudflare wait, title (h1 text, or the URL slug when
\* reading h1 raises), JobPost, append; any other raise is logged, no record
TD_GotoDetail ==
    /\ pc = "td_goto"
    /\ \/ \E t \in {"", "D"} :
            /\ job_list' = Append(job_list, TD_JobPost(t))
            /\ UNCHANGED failedSeeds
       \/ /\ job_list' = Append(job_list, TD_JobPost(SlugTitle(seeds[si].job_url)))
          /\ UNCHANGED failedSeeds
       \/ /\ failedSeeds' = failedSeeds \cup {seeds[si].job_url}
          /\ UNCHANGED job_list
    /\ pc' = "td_close"
    /\ UNCHANGED <<request, apiState, parseState, toggles, clickState, cardState, seedState, outcome, exitWhy,
                   JOB_STORE>>

\* finally: detail_page.close(); time.sleep(0.3): a raise leaves scrape
TD_CloseDetail ==
    /\ pc = "td_close"
    /\ pageOpen' = pageOpen - 1
    /\ \/ si' = si + 1 /\ pc' = "td_loop" /\ UNCHANGED <<outcome, exitWhy>>
       \/ Exit("raised", "CloseError") /\ UNCHANGED si
    /\ UNCHANGED <<request, apiState, parseState, toggles, clickState, ci, card, job_cards, detail, networkidle,
                   rawSeeds, seeds, unreadUrls, company_name, ri, job_list, failedSeeds,
                   JOB_STORE>>

(***************************************************************************)
(* run_scraper_task: store the outcome of scraper.scrape                   *)
(***************************************************************************)
\* job.dict(): the record's fields under the same names
Dict(job) == [f \in DOMAIN job |-> job[f]]

\* variant of JobsData: the list is built back to front
JobsDataReversed(jobs) == [i \in 1..Len(jobs) |-> Dict(jobs[Len(jobs) + 1 - i])]

\* jobs_data = [job.dict() for job in results.jobs]
JobsData(jobs) == [i \in 1..Len(jobs) |-> Dict(jobs[i])]

\* variant of StoreResult: the entry is updated field by field, the status first
StoreResultStatusFirst(store, task_id, how, jobs, error) ==
    IF how = "returned"
    THEN (task_id :> [status |-> "completed"]) @@ store
    ELSE (task_id :> [status |-> "failed"]) @@ store

\* variant of StoreResult: the except branch only logs, the entry is not written
StoreResultDropsFailure(store, task_id, how, jobs, error) ==
    IF how = "returned"
    THEN (task_id :> [status |-> "completed", count |-> Len(JobsData(jobs)),
                      data |-> JobsData(jobs)]) @@ store
    ELSE store

\* the two writes of run_scraper_task: JOB_STORE[task_id] = {...completed...} after
\* scrape returned, JOB_STORE[task_id] = {...failed...} in the except branch
StoreResult(store, task_id, how, jobs, error) ==
    IF how = "returned"
    THEN (task_id :> [status |-> "completed", count |-> Len(JobsData(jobs)),
                      data |-> JobsData(jobs)]) @@ store
    ELSE (task_id :> [status |-> "failed", error |-> error]) @@ store

TaskFinish ==
    /\ pc = "task"
    /\ JOB_STORE' = StoreResult(JOB_STORE, ScrapeTask, outcome, job_list, exitWhy)
    /\ pc' = "done"
    /\ UNCHANGED <<request, apiState, parseState, toggles, clickState, cardState, seedState, job_list,
                   failedSeeds, outcome, exitWhy>>

JapanDevNext ==
    \/ Flip
    \/ JD_Load
    \/ JD_Search
    \/ JD_NextFilter
    \/ JD_CheckState
    \/ JD_Click
    \/ JD_Verify
    \/ JD_SettleFilters
    \/ JD_SettleScrape
    \/ JD_GetCards
    \/ JD_NextCard
    \/ JD_OpenDetail
    \/ JD_GotoDetail
    \/ JD_CloseDetail
    \/ JD_Append

TokyoDevNext ==
    \/ TD_Load
    \/ TD_NextCompany
    \/ TD_NextRow
    \/ TD_Dedupe
    \/ TD_NextSeed
    \/ TD_OpenDetail
    \/ TD_GotoDetail
    \/ TD_CloseDetail

Next ==
    \/ TaskCall
    \/ JapanDevNext
    \/ TokyoDevNext
    \/ TaskFinish

Spec == Init /\ [][Next]_vars

\* every browser primitive returns or raises within its bound, so the scrape and
\* its task keep taking steps
FairSpec == Spec /\ WF_vars(Next)

(***************************************************************************)
(* The filter phase of a JapanDev scrape under the remote flag and         *)
(* explicit remote-work options; no record is wanted, so the card loop     *)
(* ends at its first cap test.                                             *)
(***************************************************************************)
\* the remote-work option strings given explicitly
RemoteWorkGiven == {"FULL_REMOTE", "NO_REMOTE"}

FilterInit ==
    /\ site = "japandev"
    /\ results_wanted = 0
    /\ remote_work \in SeqsUpTo(RemoteWorkGiven, MaxOptions)
    /\ seniorities = <<>>
    /\ is_remote \in BOOLEAN
    /\ unexpected_kwarg = FALSE
    /\ ScrapeStart

FilterNext ==
    \/ TaskCall
    \/ Flip
    \/ JD_Load
    \/ JD_Search
    \/ JD_NextFilter
    \/ JD_CheckState
    \/ JD_Click
    \/ JD_Verify
    \/ JD_SettleFilters
    \/ JD_SettleScrape
    \/ JD_GetCards
    \/ JD_NextCard
    \/ TaskFinish

FilterSpec == FilterInit /\ [][FilterNext]_vars

(***************************************************************************)
(* The API: submit_scrape_job, run_scraper_task, check_job_status          *)
(* Several tasks at once; the scrape of a task is one step whose result is *)
(* a record list or an exception.                                          *)
(***************************************************************************)
\* number of task identifiers uuid4 hands out in the model
MaxTasks == 2

\* str(uuid.uuid4()): the identifiers it can return
TaskIds == 1..MaxTasks

\* the identifiers a client may ask the status of (0 is never issued)
QueryIds == 0..MaxTasks

\* request.site_name values submitted
SiteNames == {"tokyodev", "JapanDev", "nosuch"}

\* request.site_name.upper()
Upper(site_name) ==
    CASE site_name = "tokyodev" -> "TOKYODEV"
      [] site_name = "JapanDev" -> "JAPANDEV"
      [] site_name = "nosuch" -> "NOSUCH"

\* the members of the Site enum the API refers to
Site ==
    {"LINKEDIN", "INDEED", "ZIP_RECRUITER", "GLASSDOOR", "GOOGLE", "BAYT", "NAUKRI",
     "BDJOBS", "TOKYODEV", "JAPANDEV"}

\* the keys of SCRAPER_MAPPING
SCRAPER_MAPPING ==
    {"LINKEDIN", "INDEED", "ZIP_RECRUITER", "GLASSDOOR", "GOOGLE", "BAYT", "NAUKRI",
     "BDJOBS", "TOKYODEV", "JAPANDEV"}

\* two records a scrape may return
JobA == [title |-> "T", job_url |-> <<"jobs", "a">>, location |-> "Tokyo", date_posted |-> Today]

JobB == [title |-> "D", job_url |-> <<"jobs", "b", "">>, location |-> "Japan", date_posted |-> "d1"]

\* what a task has got from scraper.scrape so far
NoResult == [how |-> "pending", where |-> None, jobs |-> <<>>, error |-> None]

\* scraper.scrape(scraper_input, **scrape_kwargs) returns a JobResponse or raises
ScrapeResults ==
    {[how |-> "returned", where |-> "scrape", jobs |-> js, error |-> None] :
        js \in {<<>>, <<JobA, JobB>>, <<JobB, JobA>>}}
    \cup {[how |-> "raised", where |-> "scrape", jobs |-> <<>>, error |-> "TimeoutError"]}

\* the raise statements of run_scraper_task before the scraper is called
DispatchError(error) == [how |-> "raised", where |-> "dispatch", jobs |-> <<>>, error |-> error]

\* every variable of the scrape at its value before a scrape starts
ScrapeIdle ==
    /\ site = None
    /\ results_wanted = 0
    /\ remote_work = <<>>
    /\ seniorities = <<>>
    /\ is_remote = FALSE
    /\ unexpected_kwarg = FALSE
    /\ pc = "idle"
    /\ selected = [id \in FilterIds |-> FALSE]
    /\ pending = [id \in FilterIds |-> FALSE]
    /\ fi = 1
    /\ attempt = 0
    /\ clicks = 0
    /\ clickLog = <<>>
    /\ entrySel = FALSE
    /\ entryPending = FALSE
    /\ retSel = FALSE
    /\ ci = 0
    /\ card = NoCard
    /\ job_cards = NoCards
    /\ detail = NoDetail
    /\ pageOpen = 0
    /\ networkidle = FALSE
    /\ rawSeeds = <<>>
    /\ seeds = <<>>
    /\ unreadUrls = {}
    /\ si = 1
    /\ company_name = None
    /\ ri = 0
    /\ job_list = <<>>
    /\ failedSeeds = {}
    /\ outcome = "running"
    /\ exitWhy = None

scrapeState ==
    <<request, pc, toggles, clickState, cardState, seedState, job_list, failedSeeds,
      outcome, exitWhy>>

\* the server has started: JOB_STORE = {}
ApiInit ==
    /\ ScrapeIdle
    /\ JOB_STORE = <<>>
    /\ ApiIdle
    /\ ParseIdle

\* HTTPException(status_code=400, ...) raised by submit_scrape_job
Rejected(site_name, message) ==
    /\ response' = [op |-> "submit", asked |-> site_name, code |-> 400, detail |-> message]
    /\ UNCHANGED <<JOB_STORE, tasks>>

\* variant of Accepted: the task is queued and the identifier returned, the entry
\* being left for the task to create
AcceptedQueuesOnly(site_name) ==
    \E task_id \in TaskIds \ DOMAIN tasks :
        /\ UNCHANGED JOB_STORE
        /\ tasks' = (task_id :> [site_name |-> site_name, pc |-> "queued",
                                 result |-> NoResult]) @@ tasks
        /\ response' = [op |-> "submit", asked |-> site_name, code |-> 202,
                        task_id |-> task_id, status |-> "processing"]

\* task_id = str(uuid.uuid4()); JOB_STORE[task_id] = {"status": "processing"};
\* background_tasks.add_task(run_scraper_task, task_id, request); the 202 response.
\* uuid4 does not return a value it returned before.
Accepted(site_name) ==
    \E task_id \in TaskIds \ DOMAIN tasks :
        /\ JOB_STORE' = (task_id :> [status |-> "processing"]) @@ JOB_STORE
        /\ tasks' = (task_id :> [site_name |-> site_name, pc |-> "queued",
                                 result |-> NoResult]) @@ tasks
        /\ response' = [op |-> "submit", asked |-> site_name, code |-> 202,
                        task_id |-> task_id, status |-> "processing"]

\* variant of SubmitScrapeJob: the entry is stored and the task queued before the
\* site name is validated
SubmitStoresFirst ==
    /\ \E site_name \in SiteNames :
        IF Upper(site_name) \in Site /\ Upper(site_name) \in SCRAPER_MAPPING
        THEN Accepted(site_name)
        ELSE \E task_id \in TaskIds \ DOMAIN tasks :
                /\ JOB_STORE' = (task_id :> [status |-> "processing"]) @@ JOB_STORE
                /\ tasks' = (task_id :> [site_name |-> site_name, pc |-> "queued",
                                         result |-> NoResult]) @@ tasks
                /\ response' = [op |-> "submit", asked |-> site_name, code |-> 400,
                                detail |-> "Invalid site name"]
    /\ UNCHANGED <<scrapeState, parseState>>

\* POST /scrape
SubmitScrapeJob ==
    /\ \E site_name \in SiteNames :
        IF Upper(site_name) \notin Site
        THEN Rejected(site_name, "Invalid site name")
        ELSE IF Upper(site_name) \notin SCRAPER_MAPPING
             THEN Rejected(site_name, "not configured")
             ELSE Accepted(site_name)
    /\ UNCHANGED <<scrapeState, parseState>>

\* run_scraper_task up to the end of the scraper call: site lookup, dispatch,
\* scraper.scrape(...)
TaskScrape(task_id) ==
    /\ task_id \in DOMAIN tasks
    /\ tasks[task_id].pc = "queued"
    /\ \E res \in (IF Upper(tasks[task_id].site_name) \notin Site
                   THEN {DispatchError("Invalid site name")}
                   ELSE IF Upper(tasks[task_id].site_name) \notin SCRAPER_MAPPING
                        THEN {DispatchError("not configured in API")}
                        ELSE ScrapeResults) :
        tasks' = [tasks EXCEPT ![task_id] = [@ EXCEPT !.pc = "scraped", !.result = res]]
    /\ UNCHANGED <<JOB_STORE, response, scrapeState, parseState>>

\* variant of TaskStore: the entry is written under the identifier issued last,
\* kept in one place shared by all tasks
TaskStoreSharedKey(task_id) ==
    /\ task_id \in DOMAIN tasks
    /\ tasks[task_id].pc = "scraped"
    /\ LET r == tasks[task_id].result
           last == CHOOSE t \in DOMAIN tasks : \A u \in DOMAIN tasks : u <= t
       IN JOB_STORE' = StoreResult(JOB_STORE, last, r.how, r.jobs, r.error)
    /\ tasks' = [tasks EXCEPT ![task_id] = [@ EXCEPT !.pc = "ended"]]
    /\ UNCHANGED <<response, scrapeState, parseState>>

\* run_scraper_task, the write of the outcome into JOB_STORE[task_id]
TaskStore(task_id) ==
    /\ task_id \in DOMAIN tasks
    /\ tasks[task_id].pc = "scraped"
    /\ LET r == tasks[task_id].result
       IN JOB_STORE' = StoreResult(JOB_STORE, task_id, r.how, r.jobs, r.error)
    /\ tasks' = [tasks EXCEPT ![task_id] = [@ EXCEPT !.pc = "ended"]]
    /\ UNCHANGED <<response, scrapeState, parseState>>

\* what check_job_status(task_id) answers
StatusOf(task_id) ==
    IF task_id \notin DOMAIN JOB_STORE
    THEN [op |-> "status", asked |-> task_id, code |-> 404, detail |-> "Task ID not found"]
    ELSE LET job == JOB_STORE[task_id]
         IN IF job.status = "failed"
            THEN [op |-> "status", asked |-> task_id, code |-> 500, error |-> job.error]
            ELSE IF job.status = "processing"
                 THEN [op |-> "status", asked |-> task_id, code |-> 200,
                       status |-> "processing"]
                 ELSE [op |-> "status", asked |-> task_id, code |-> 200, job |-> job]

\* GET /status/{task_id}
CheckJobStatus ==
    /\ \E task_id \in QueryIds : response' = StatusOf(task_id)
    /\ UNCHANGED <<JOB_STORE, tasks, scrapeState, parseState>>

\* GET /health
Health ==
    /\ response' = [op |-> "health", status |-> "ok",
                    jobs_in_memory |-> Cardinality(DOMAIN JOB_STORE)]
    /\ UNCHANGED <<JOB_STORE, tasks, scrapeState, parseState>>

ApiNext ==
    \/ SubmitScrapeJob
    \/ \E task_id \in TaskIds : TaskScrape(task_id)
    \/ \E task_id \in TaskIds : TaskStore(task_id)
    \/ CheckJobStatus
    \/ Health

ApiSpec == ApiInit /\ [][ApiNext]_vars

\* a background task that was added runs, and its scrape ends (C9)
ApiFairSpec ==
    ApiSpec /\ \A task_id \in TaskIds :
                   WF_vars(TaskScrape(task_id)) /\ WF_vars(TaskStore(task_id))

(***************************************************************************)
(* The compensation parsers: _parse_salary_to_comp of JapanDev and of      *)
(* TokyoDev, as functions of the text. A text is a sequence of characters; *)
(* "yen" stands for the yen glyph. An optional amount is a set with at     *)
(* most one element. Amounts are in thousands of yen (10M is 10000).       *)
(***************************************************************************)
\* longest text enumerated
MaxText == 4

\* the characters the enumerated texts are made of
TextChars == {"1", "4", ".", "M", "m", " ", ","}

\* texts the sources and the spec quote, "N/A", and a yen amount written out
ExampleTexts ==
    {<<"5", "0", "0", "0", "0", "0">>,
     <<"1", "0", "M", " ", "1", "4", "M", " ", "y", "r">>,
     <<"8", ".", "5", "M", " ", "1", "2", "M">>,
     <<"yen", "7", ".", "5", "M", " ", "~", " ", "yen", "1", "4", "M">>,
     <<"N", "/", "A">>}

\* the arguments a parser is called with
SalaryTexts ==
    {NoText} \cup {[given |-> TRUE, chars |-> t] :
                       t \in SeqsUpTo(TextChars, MaxText) \cup ExampleTexts}

\* the regex class \d
IsDigit(c) == c \in {"0", "1", "2", "3", "4", "5", "6", "7", "8", "9"}

DigitVal(c) ==
    CASE c = "0" -> 0 [] c = "1" -> 1 [] c = "2" -> 2 [] c = "3" -> 3 [] c = "4" -> 4
      [] c = "5" -> 5 [] c = "6" -> 6 [] c = "7" -> 7 [] c = "8" -> 8 [] c = "9" -> 9

\* salary_text.replace(",", "")
RemoveCommas(t) == SelectSeq(t, LAMBDA c : c # ",")

\* str.upper(), character by character
UpperChar(c) ==
    CASE c = "m" -> "M" [] c = "y" -> "Y" [] c = "r" -> "R" [] OTHER -> c

UpperText(t) == [i \in 1..Len(t) |-> UpperChar(t[i])]

\* str.strip()
RECURSIVE Strip(_)
Strip(t) ==
    IF t = <<>> THEN t
    ELSE IF Head(t) = " " THEN Strip(Tail(t))
    ELSE IF t[Len(t)] = " " THEN Strip(SubSeq(t, 1, Len(t) - 1))
    ELSE t

\* \d+ matched greedily from position i (a digit): the position of its last digit
RECURSIVE DigitsEnd(_, _)
DigitsEnd(t, i) ==
    IF i + 1 <= Len(t) /\ IsDigit(t[i + 1]) THEN DigitsEnd(t, i + 1) ELSE i

\* \d+(?:\.\d+)? matched from position i: the position of its last character
TokenEnd(t, i) ==
    LET j == DigitsEnd(t, i)
    IN IF j + 2 <= Len(t) /\ t[j + 1] = "." /\ IsDigit(t[j + 2])
       THEN DigitsEnd(t, j + 2)
       ELSE j

\* \s* matched from position i: the position after the white space
RECURSIVE SkipSpace(_, _)
SkipSpace(t, i) ==
    IF i <= Len(t) /\ t[i] = " " THEN SkipSpace(t, i + 1) ELSE i

\* JapanDev: re.findall(r"(\d+(?:\.\d+)?)", text), scanning from position i
RECURSIVE FindallNumbers(_, _)
FindallNumbers(t, i) ==
    IF i > Len(t) THEN <<>>
    ELSE IF IsDigit(t[i])
         THEN <<SubSeq(t, i, TokenEnd(t, i))>> \o FindallNumbers(t, TokenEnd(t, i) + 1)
         ELSE FindallNumbers(t, i + 1)

\* the run of digits and dots starting at position i: the position of its last one
RECURSIVE DotsAndDigitsEnd(_, _)
DotsAndDigitsEnd(t, i) ==
    IF i + 1 <= Len(t) /\ (IsDigit(t[i + 1]) \/ t[i + 1] = ".")
    THEN DotsAndDigitsEnd(t, i + 1)
    ELSE i

\* variant of FindallMillions: the number written as ([\d.]+), which also takes
\* "." and "1.4.1" for numbers
RECURSIVE FindallMillionsLoose(_, _)
FindallMillionsLoose(t, i) ==
    IF i > Len(t) THEN <<>>
    ELSE IF IsDigit(t[i]) \/ t[i] = "."
         THEN LET k == DotsAndDigitsEnd(t, i)
                  m == SkipSpace(t, k + 1)
              IN IF m <= Len(t) /\ t[m] = "M"
                 THEN <<SubSeq(t, i, k)>> \o FindallMillionsLoose(t, m + 1)
                 ELSE FindallMillionsLoose(t, i + 1)
         ELSE FindallMillionsLoose(t, i + 1)

\* TokyoDev: re.findall(r"(\d+(?:\.\d+)?)\s*M", text), scanning from position i;
\* a number not followed by \s*M is no match, and the scan resumes one character on
RECURSIVE FindallMillions(_, _)
FindallMillions(t, i) ==
    IF i > Len(t) THEN <<>>
    ELSE IF IsDigit(t[i])
         THEN LET k == TokenEnd(t, i)
                  m == SkipSpace(t, k + 1)
              IN IF m <= Len(t) /\ t[m] = "M"
                 THEN <<SubSeq(t, i, k)>> \o FindallMillions(t, m + 1)
                 ELSE FindallMillions(t, i + 1)
         ELSE FindallMillions(t, i + 1)

\* float(x) accepts the token: digits with at most one dot and at least one digit
IsFloatLiteral(x) ==
    /\ \A i \in 1..Len(x) : IsDigit(x[i]) \/ x[i] = "."
    /\ Cardinality({i \in 1..Len(x) : x[i] = "."}) <= 1
    /\ \E i \in 1..Len(x) : IsDigit(x[i])

\* 10 ** n
RECURSIVE Pow10(_)
Pow10(n) == IF n = 0 THEN 1 ELSE 10 * Pow10(n - 1)

\* the value of a run of digits
RECURSIVE DigitsValue(_)
DigitsValue(ds) ==
    IF ds = <<>> THEN 0 ELSE 10 * DigitsValue(SubSeq(ds, 1, Len(ds) - 1)) + DigitVal(ds[Len(ds)])

\* float(x) * 1_000_000, in thousands of yen (decimals beyond the third dropped)
Millions(x) ==
    LET dots == {i \in 1..Len(x) : x[i] = "."}
        dot == IF dots = {} THEN Len(x) + 1 ELSE CHOOSE i \in dots : TRUE
        whole == SubSeq(x, 1, dot - 1)
        all == SubSeq(x, dot + 1, Len(x))
        decimals == IF Len(all) > 3 THEN SubSeq(all, 1, 3) ELSE all
    IN DigitsValue(whole) * Pow10(3) + DigitsValue(decimals) * Pow10(3 - Len(decimals))

\* what a parser call gives back
ReturnNone == [kind |-> "none", interval |-> None, min_amount |-> 0, max_amount |-> {},
               currency |-> None]

Raised == [kind |-> "raised", interval |-> None, min_amount |-> 0, max_amount |-> {},
           currency |-> None]

\* Compensation(interval=..., min_amount=..., max_amount=..., currency=...)
Compensation(interval, min_amount, max_amount, currency) ==
    [kind |-> "comp", interval |-> interval, min_amount |-> min_amount,
     max_amount |-> max_amount, currency |-> currency]

\* JapanDev._parse_salary_to_comp: float() and Compensation() are inside try/except
JD_ParseSalaryToComp(text) ==
    IF ~text.given \/ text.chars = <<>> THEN ReturnNone
    ELSE LET matches == FindallNumbers(RemoveCommas(text.chars), 1)
         IN IF Len(matches) < 1 THEN ReturnNone
            ELSE IF ~IsFloatLiteral(matches[1])
                     \/ (Len(matches) > 1 /\ ~IsFloatLiteral(matches[2]))
                 THEN ReturnNone
                 ELSE Compensation("YEARLY", Millions(matches[1]),
                          IF Len(matches) > 1 THEN {Millions(matches[2])} ELSE {},
                          "JPY")

\* "yen glyph in text or "JPY" in text.upper()"
HasYen(t) ==
    \/ \E i \in 1..Len(t) : t[i] = "yen"
    \/ \E i \in 1..(Len(t) - 2) :
          UpperChar(t[i]) = "J" /\ UpperChar(t[i + 1]) = "P" /\ UpperChar(t[i + 2]) = "Y"

\* TokyoDev._parse_salary_to_comp: nothing is caught
TD_ParseSalaryToComp(text) ==
    IF ~text.given \/ text.chars = <<>> THEN ReturnNone
    ELSE LET stripped == Strip(RemoveCommas(text.chars))
             currency == IF HasYen(stripped) THEN "JPY" ELSE None
             nums == FindallMillions(UpperText(stripped), 1)
         IN IF nums = <<>> THEN ReturnNone
            ELSE IF \E i \in 1..Len(nums) : ~IsFloatLiteral(nums[i])
                 THEN Raised
                 ELSE Compensation("YEARLY", Millions(nums[1]),
                          IF Len(nums) > 1 THEN {Millions(nums[2])} ELSE {},
                          Or(currency, "JPY"))

\* a parser is about to be called on some text
ParseInit ==
    /\ ScrapeIdle
    /\ JOB_STORE = <<>>
    /\ ApiIdle
    /\ salary_text \in SalaryTexts
    /\ comp = [by |-> None]

JD_ParseSalary ==
    /\ comp.by = None
    /\ comp' = [by |-> "japandev", ret |-> JD_ParseSalaryToComp(salary_text)]
    /\ UNCHANGED <<salary_text, JOB_STORE, apiState, scrapeState>>

TD_ParseSalary ==
    /\ comp.by = None
    /\ comp' = [by |-> "tokyodev", ret |-> TD_ParseSalaryToComp(salary_text)]
    /\ UNCHANGED <<salary_text, JOB_STORE, apiState, scrapeState>>

ParseNext ==
    \/ JD_ParseSalary
    \/ TD_ParseSalary

ParseSpec == ParseInit /\ [][ParseNext]_vars

(***************************************************************************)
(* The merge of detail values, listing hints and site defaults into one    *)
(* record, as a function of what the detail page and the listing gave.     *)
(* `detail` is the detail dict (JapanDev) or the h1 text and header_info   *)
(* (TokyoDev); `card` holds the hints of the card or seed.                 *)
(***************************************************************************)
\* what _extract_detail_fields may return
MergeDetails ==
    [title : {None, "", "D"}, company_name : {None, "", "C"},
     location_text : {None, "", "L"}, salary_text : {None, "", "S"},
     date_posted : {None, "d1"}]

\* the hints read from a JapanDev card
MergeCards ==
    [title : ListTitles, company_name : {None, "", "H"}, job_url : {<<"jobs", "a">>}]

\* the h1 text (None: reading it raised) and header_info of a TokyoDev detail page
MergeHeaders ==
    [h1 : {None, "", "D"}, company_name : {None, "", "C"}, salary_text : {None, "S"}]

\* TokyoDev seeds
MergeSeeds ==
    [job_url : Urls, company_name : {None, "", "H"}, salary_text_hint : {None, "", "S2"}]

MergeInit ==
    /\ site \in {"japandev", "tokyodev"}
    /\ results_wanted = 1
    /\ remote_work = <<>>
    /\ seniorities = <<>>
    /\ is_remote = FALSE
    /\ unexpected_kwarg = FALSE
    /\ pc = "merge"
    /\ selected = [id \in FilterIds |-> FALSE]
    /\ pending = [id \in FilterIds |-> FALSE]
    /\ fi = 1
    /\ attempt = 0
    /\ clicks = 0
    /\ clickLog = <<>>
    /\ entrySel = FALSE
    /\ entryPending = FALSE
    /\ retSel = FALSE
    /\ ci = 0
    /\ card \in (IF site = "japandev" THEN MergeCards ELSE MergeSeeds)
    /\ job_cards = NoCards
    /\ detail \in (IF site = "japandev" THEN MergeDetails ELSE MergeHeaders)
    /\ pageOpen = 0
    /\ networkidle = FALSE
    /\ rawSeeds = <<>>
    /\ seeds = <<>>
    /\ unreadUrls = {}
    /\ si = 1
    /\ company_name = None
    /\ ri = 0
    /\ job_list = <<>>
    /\ failedSeeds = {}
    /\ outcome = "running"
    /\ exitWhy = None
    /\ JOB_STORE = <<>>
    /\ ApiIdle
    /\ ParseIdle

\* the dict built in the except branch, with all its fields
JD_DegradedDict ==
    [title |-> card.title, company_name |-> card.company_name, location_text |-> "Japan",
     salary_text |-> None, date_posted |-> Today]

\* JapanDev: the detail dict (the extracted one, or the one of the except branch
\* when goto or extraction raised) merged with the card's hints
JD_BuildRecord ==
    /\ pc = "merge"
    /\ site = "japandev"
    /\ \/ /\ job_list' = <<JD_Merge(detail, card.title, card.company_name)>>
          /\ UNCHANGED failedSeeds
       \/ /\ job_list' = <<JD_Merge(JD_DegradedDict, card.title, card.company_name)>>
          /\ failedSeeds' = {card.job_url}
    /\ pc' = "merged"
    /\ UNCHANGED <<request, apiState, parseState, toggles, clickState, cardState, seedState,
                   outcome, exitWhy, JOB_STORE>>

\* TokyoDev: title, header_info and the seed merged
TD_BuildRecord ==
    /\ pc = "merge"
    /\ site = "tokyodev"
    /\ job_list' = <<TD_Merge(detail.h1, detail, card)>>
    /\ pc' = "merged"
    /\ UNCHANGED <<request, apiState, parseState, toggles, clickState, cardState, seedState,
                   failedSeeds, outcome, exitWhy, JOB_STORE>>

MergeNext ==
    \/ JD_BuildRecord
    \/ TD_BuildRecord

MergeSpec == MergeInit /\ [][MergeNext]_vars

(***************************************************************************)
(* Properties                                                              *)
(***************************************************************************)
ReturnedNormally == outcome = "returned"

\* C1: cap invariant. The record list never holds more than results_wanted
\* records, at any moment of either scrape and in the stored result, whatever
\* cards or seeds fail or are skipped.
C1_CapInvariant ==
    /\ Len(job_list) <= results_wanted
    /\ JOB_STORE[ScrapeTask].status = "completed" =>
            JOB_STORE[ScrapeTask].count <= results_wanted

\* a scrape that filled the cap although a detail page failed to load
C1_Witness ==
    /\ pc = "done"
    /\ ReturnedNormally
    /\ results_wanted = MaxWanted
    /\ Len(job_list) = results_wanted
    /\ failedSeeds # {}

\* a record built only from listing hints and site defaults for the URL
DegradedRecordFor(u, locationDefault) ==
    \E i \in 1..Len(job_list) :
        /\ job_list[i].job_url = u
        /\ job_list[i].location = locationDefault
        /\ job_list[i].date_posted = Today

\* C2: a seed whose detail page fails to load is not discarded. JapanDev: the
\* record built for a card whose load failed is the degraded one (listing title,
\* location "Japan", posted today). TokyoDev: once the try block of a seed is
\* over, a seed whose load failed has a degraded record in job_list, and a scrape
\* that harvested at least results_wanted seeds returns exactly results_wanted
\* records.
C2_FailedSeedKept ==
    /\ (pc = "jd_build" /\ detail = DegradedDetail) =>
            /\ JD_JobPost.title = card.title
            /\ JD_JobPost.location = "Japan"
            /\ JD_JobPost.date_posted = Today
    /\ (pc = "td_close" /\ seeds[si].job_url \in failedSeeds) =>
            DegradedRecordFor(seeds[si].job_url, "Tokyo")
    /\ (site = "tokyodev" /\ ReturnedNormally /\ exitWhy # "fatal_load"
            /\ Len(seeds) >= results_wanted) =>
            Len(job_list) = results_wanted

\* C3: every record of job_list, of either scraper, has a non-empty title and a
\* non-null posted date.
C3_TitleAndDate ==
    \A i \in 1..Len(job_list) :
        /\ job_list[i].title \notin {"", None}
        /\ job_list[i].date_posted # None

\* the toggle of the _click_filter call that returned last
LastId == ClickPlan[fi - 1].value

ClickFilterReturned == pc = "jd_filter" /\ fi > 1

\* C4: idempotent filter application. A _click_filter call on a toggle that is
\* selected, with no flip in flight, when the call begins never leaves it
\* unselected: once the call has returned and no flip is in flight, the toggle
\* is selected.
C4_Idempotent ==
    (ClickFilterReturned /\ entrySel /\ ~entryPending /\ ~pending[LastId]) =>
        selected[LastId]

\* C5: a _click_filter call on a toggle that is selected when the call begins
\* issues no click and returns with the toggle still selected.
C5_NoClickWhenSelected ==
    /\ (pc \in {"jd_click", "jd_verify"} /\ entrySel) => clicks = 0
    /\ (ClickFilterReturned /\ entrySel) => (clicks = 0 /\ retSel)

\* C6: a failed initial listing load ends scrape with an empty record list and
\* no exception, before any filter was checked or clicked and before any card,
\* seed or detail page was touched; nothing of that happens afterwards, and the
\* task is stored as completed with count 0.
C6_FatalLoadReturnsEmpty ==
    /\ [](exitWhy = "fatal_load" =>
            /\ ReturnedNormally
            /\ job_list = <<>>
            /\ fi = 1 /\ clicks = 0 /\ \A id \in FilterIds : ~pending[id]
            /\ ci = 0 /\ pageOpen = 0 /\ rawSeeds = <<>> /\ seeds = <<>>
            /\ failedSeeds = {}
            /\ JOB_STORE[ScrapeTask].status # "failed"
            /\ pc = "done" => /\ JOB_STORE[ScrapeTask].status = "completed"
                              /\ JOB_STORE[ScrapeTask].count = 0)
    /\ [][exitWhy = "fatal_load" =>
            UNCHANGED <<toggles, clickState, cardState, seedState, job_list>>]_vars

C6_Witness ==
    /\ pc = "done"
    /\ exitWhy = "fatal_load"
    /\ JOB_STORE[ScrapeTask].status = "completed"
    /\ JOB_STORE[ScrapeTask].count = 0

\* C7: once the initial listing load has succeeded, no expired wait aborts the
\* scrape: scrape never ends with the timeout of a wait leaving it.
C7_WaitExpiryNotFatal == ~(outcome = "raised" /\ exitWhy = "TimeoutError")

\* C8: a failure confined to one item never leaves scrape as an exception; stated
\* here for the failures of opening and of closing the item's detail page.
C8_ItemFailureContained ==
    ~(outcome = "raised" /\ exitWhy \in {"OpenError", "CloseError"})

C10_SeedUniqueness ==
    /\ \A i, j \in 1..Len(seeds) : i # j => seeds[i].job_url # seeds[j].job_url
    /\ \A i \in 1..Len(seeds) :
        \E k \in 1..Len(rawSeeds) :
            /\ rawSeeds[k] = seeds[i]
            /\ \A m \in 1..(k - 1) : rawSeeds[m].job_url # seeds[i].job_url
    /\ pc \in {"td_loop", "td_open", "td_goto", "td_close"} =>
        \A k \in 1..Len(rawSeeds) :
            \E i \in 1..Len(seeds) : seeds[i].job_url = rawSeeds[k].job_url

\* the collector returned after harvesting one URL under two companies
C10_Witness ==
    /\ pc = "td_loop"
    /\ si = 1
    /\ Len(seeds) < Len(rawSeeds)
    /\ \E j, k \in 1..Len(rawSeeds) :
        /\ j < k
        /\ rawSeeds[j].job_url = rawSeeds[k].job_url
        /\ rawSeeds[j].company_name # rawSeeds[k].company_name

\* C11: detail URLs are unique within one scrape. No two records of job_list, of
\* either scraper, carry the same job URL, also when the listing shows one job in
\* more than one card.
C11_UniqueDetailUrls ==
    \A i, j \in 1..Len(job_list) :
        i # j => job_list[i].job_url # job_list[j].job_url

\* D: the number of distinct resolvable URLs on the TokyoDev listing, read or not
DistinctOnListing ==
    Cardinality({rawSeeds[k].job_url : k \in 1..Len(rawSeeds)} \cup unreadUrls)

\* C12: seeds are deduplicated first and truncated second. Once the collector has
\* returned, the seed list holds min(results_wanted, D) seeds; in particular
\* exactly results_wanted seeds whenever the listing holds that many distinct URLs.
C12_DedupeThenTruncate ==
    (site = "tokyodev" /\ pc \in {"td_loop", "td_open", "td_goto", "td_close"}) =>
        Len(seeds) = (IF results_wanted <= DistinctOnListing
                      THEN results_wanted ELSE DistinctOnListing)

\* C13: each detail page is a scoped acquisition. At most one detail page is
\* open at any moment, and outside the body and the finally of an item's try no
\* detail page is open: not at the head of either loop, not when the next page is
\* about to be opened, not when the record is built, not once scrape has ended.
\* (A page counts as closed once close() was called on it.)
C13_ScopedDetailPage ==
    pageOpen = (IF pc \in {"jd_goto", "jd_close", "td_goto", "td_close"} THEN 1 ELSE 0)

\* the second seed's page is about to be opened after the first seed's navigation
\* failed
C13_Witness ==
    /\ pc = "td_open"
    /\ si = 2
    /\ seeds[1].job_url \in failedSeeds
    /\ pageOpen = 0

\* C20: filter retry with escalation. A _click_filter call issues at most three
\* clicks, one per attempt, the one of the first attempt normal and those of the
\* second and third attempts forced; the call raises nothing into scrape; after a
\* verification that sees the toggle selected the call returns without another
\* click; after a failed attempt the next attempt follows, and after the third
\* failed attempt the call returns and _apply_filters goes on to the next option.
C20_RetryEscalation ==
    /\ [](/\ Len(clickLog) <= RetryLimit
          /\ clicks = Len(clickLog)
          /\ \A k \in 1..Len(clickLog) :
                /\ clickLog[k].attempt \in 0..(RetryLimit - 1)
                /\ clickLog[k].force = (clickLog[k].attempt # 0)
                /\ k > 1 => clickLog[k - 1].attempt < clickLog[k].attempt
          /\ pc \in {"jd_check", "jd_click", "jd_verify"} => outcome = "running")
    /\ [][(pc = "jd_verify" /\ pc' # "jd_verify") =>
            /\ clickLog' = clickLog
            /\ outcome' = "running"
            /\ IF selected[CurId] \/ attempt = RetryLimit - 1
               THEN pc' = "jd_filter" /\ fi' = fi + 1
               ELSE pc' = "jd_click" /\ attempt' = attempt + 1 /\ fi' = fi]_vars

\* _apply_filters is at its second option after the call on the first one issued
\* a normal click and two forced clicks and returned with the toggle unselected
C20_Witness ==
    /\ pc = "jd_check"
    /\ fi = 2
    /\ ~retSel
    /\ clickLog = <<[attempt |-> 0, force |-> FALSE], [attempt |-> 1, force |-> TRUE],
                    [attempt |-> 2, force |-> TRUE]>>

\* C14: a submission whose site name is not a known, configured site is rejected
\* at once: it gets the 400 answer, no identifier, no store entry and no
\* background task, so only accepted site names are ever scraped. An accepted
\* submission adds exactly one entry, "processing", under an identifier that was
\* not in the store, leaves every existing entry as it was and queues one task.
C14_RejectedLeavesNoTrace ==
    /\ [](/\ DOMAIN tasks = DOMAIN JOB_STORE
          /\ \A t \in DOMAIN tasks :
                Upper(tasks[t].site_name) \in Site \cap SCRAPER_MAPPING
          /\ response.op = "submit" =>
                (response.code = 400 <=>
                    Upper(response.asked) \notin Site \cap SCRAPER_MAPPING))
    /\ [][(response' # response /\ response'.op = "submit" /\ response'.code = 400) =>
            UNCHANGED <<JOB_STORE, tasks>>]_vars
    /\ [][(DOMAIN JOB_STORE' # DOMAIN JOB_STORE \/ DOMAIN tasks' # DOMAIN tasks) =>
            \E new \in TaskIds \ DOMAIN JOB_STORE :
                /\ DOMAIN JOB_STORE' = DOMAIN JOB_STORE \cup {new}
                /\ DOMAIN tasks' = DOMAIN tasks \cup {new}
                /\ \A u \in DOMAIN JOB_STORE :
                      JOB_STORE'[u] = JOB_STORE[u] /\ tasks'[u] = tasks[u]
                /\ JOB_STORE'[new] = [status |-> "processing"]
                /\ tasks'[new].pc = "queued"
                /\ response'.op = "submit"
                /\ response'.code = 202
                /\ response'.task_id = new]_vars

\* an unknown site name was rejected while an earlier task was being processed
C14_Witness ==
    /\ response.op = "submit"
    /\ response.code = 400
    /\ response.asked = "nosuch"
    /\ \E t \in DOMAIN tasks : tasks[t].pc = "scraped"

\* the answer check_job_status must give for an identifier, read off the store
AnswerMatchesStore(answer) ==
    IF answer.asked \notin DOMAIN JOB_STORE
    THEN answer.code = 404
    ELSE LET job == JOB_STORE[answer.asked]
         IN CASE job.status = "processing" ->
                    /\ "status" \in DOMAIN answer
                    /\ answer.status = "processing"
              [] job.status = "completed" ->
                    /\ "job" \in DOMAIN answer
                    /\ answer.job.status = "completed"
                    /\ answer.job.count = job.count
                    /\ answer.job.data = job.data
              [] job.status = "failed" ->
                    /\ answer.code = 500
                    /\ answer.error = job.error

C16_FailedOnlyOnScrapeException ==
    \A t \in DOMAIN tasks :
        LET r == tasks[t].result
            e == JOB_STORE[t]
        IN IF tasks[t].pc # "ended"
           THEN e.status = "processing"
           ELSE IF r.how = "raised"
                THEN /\ r.where = "scrape"
                     /\ e = [status |-> "failed", error |-> r.error]
                ELSE /\ e.status = "completed"
                     /\ e.count = Len(e.data)
                     /\ Len(e.data) = Len(r.jobs)
                     /\ \A i \in 1..Len(r.jobs) : e.data[i] = Dict(r.jobs[i])

\* one task ended failed and another completed with two records
C16_Witness ==
    \E t, u \in DOMAIN tasks :
        /\ tasks[t].pc = "ended" /\ JOB_STORE[t].status = "failed"
        /\ tasks[u].pc = "ended" /\ JOB_STORE[u].status = "completed"
        /\ JOB_STORE[u].count = 2
        /\ JOB_STORE[u].data[1] = JobB

\* C19: concurrent tasks are independent. A step that changes the entry of task t
\* is t's own store step and writes what t's own scrape produced; a step of one
\* task changes neither the state nor the entry of any other task.
C19_TasksIndependent ==
    /\ [][\A t \in DOMAIN JOB_STORE :
            JOB_STORE'[t] # JOB_STORE[t] =>
                /\ tasks[t].pc = "scraped"
                /\ tasks'[t].pc = "ended"
                /\ (JOB_STORE'[t].status = "completed") = (tasks[t].result.how = "returned")
                /\ JOB_STORE'[t].status = "completed" =>
                        JOB_STORE'[t].data = JobsData(tasks[t].result.jobs)]_vars
    /\ [][\A t \in DOMAIN tasks :
            tasks'[t] # tasks[t] =>
                \A u \in DOMAIN tasks \ {t} :
                    tasks'[u] = tasks[u] /\ JOB_STORE'[u] = JOB_STORE[u]]_vars

\* two tasks had both finished their scrape before either stored its outcome, and
\* the one accepted later stored first
C19_Witness ==
    \E t, u \in DOMAIN tasks :
        /\ t < u
        /\ tasks[t].pc = "scraped" /\ tasks[t].result.how = "raised"
        /\ tasks[u].pc = "ended" /\ JOB_STORE[u].status = "completed"
        /\ JOB_STORE[t].status = "processing"

\* the parsed text is absent, empty or "N/A"
NoSalaryGiven ==
    \/ ~salary_text.given
    \/ salary_text.chars \in {<<>>, <<"N", "/", "A">>}

\* C17: parser totality. Whatever the text, each of the two parsers returns
\* none or a well-formed compensation (yearly interval, a minimum amount, at most
\* one maximum amount, a currency code) and raises nothing; for an absent or
\* empty text and for "N/A" it returns none.
C17_ParserTotality ==
    comp.by # None =>
        /\ comp.ret.kind \in {"none", "comp"}
        /\ comp.ret.kind = "comp" =>
              /\ comp.ret.interval = "YEARLY"
              /\ comp.ret.min_amount \in Nat
              /\ comp.ret.max_amount \subseteq Nat
              /\ Cardinality(comp.ret.max_amount) <= 1
              /\ comp.ret.currency = "JPY"
        /\ NoSalaryGiven => comp.ret.kind = "none"

\* the TokyoDev parser was given a text in which a dot follows a number that is
\* itself followed by M, and returned that number's amount
C17_Witness ==
    /\ comp.by = "tokyodev"
    /\ salary_text.chars = <<"1", ".", "4", "M">>
    /\ comp.ret.kind = "comp"
    /\ comp.ret.min_amount = 1400
    /\ comp.ret.max_amount = {}

\* the numeric tokens of the parsed text that precede a magnitude suffix M, left
\* to right, separators stripped
SuffixedTokens == FindallMillions(UpperText(RemoveCommas(salary_text.chars)), 1)

\* C18: for a text whose magnitude-suffixed numeric tokens are a then b, either
\* parser returns interval yearly, minimum a x 1,000,000, maximum b x 1,000,000
\* (no maximum when there is one token only) and currency JPY; tokens after the
\* second are ignored. (Amounts are compared in thousands of yen.)
C18_FirstTwoSuffixedTokens ==
    (comp.by # None /\ salary_text.given /\ Len(SuffixedTokens) >= 1) =>
        /\ comp.ret.kind = "comp"
        /\ comp.ret.interval = "YEARLY"
        /\ comp.ret.min_amount = Millions(SuffixedTokens[1])
        /\ comp.ret.max_amount = (IF Len(SuffixedTokens) >= 2
                                  THEN {Millions(SuffixedTokens[2])} ELSE {})
        /\ comp.ret.currency = "JPY"

\* the positions of JapanDev.scrape up to the end of the settlement waits
FilterPhase ==
    {"jd_load", "jd_search", "jd_filter", "jd_check", "jd_click", "jd_verify",
     "jd_settle", "jd_settle2"}

\* the step ends the _click_filter call on the current option in a terminal state
TerminalReturn ==
    \/ pc = "jd_check" /\ selected[CurId] /\ clicks' = 0
    \/ pc = "jd_verify" /\ selected[CurId]
    \/ pc = "jd_click" /\ attempt = RetryLimit - 1 /\ clicks' = clicks
    \/ pc = "jd_verify" /\ attempt = RetryLimit - 1 /\ ~selected[CurId]

\* C21: ordering in a JapanDev scrape. The search step comes once, right after the
\* listing load and before any toggle is checked or clicked; the options are
\* processed one at a time, the state check of an option starting only from the
\* head of the option loop and the loop moving on only when the _click_filter call
\* ended already-selected, selected or failed after its last attempt; the
\* settlement wait starts only when every option was processed, and the cards
\* are looked up only after both settlement waits have ended; until then no
\* card was read, no detail page opened and no record built.
C21_FilterOrdering ==
    /\ [][(pc = "jd_load" \/ pc = "jd_search") => UNCHANGED <<toggles, clickState>>]_vars
    /\ [][(pc' = "jd_search" /\ pc # "jd_search") => pc = "jd_load"]_vars
    /\ [][(pc = "jd_search" /\ pc' # "jd_search") => pc' = "jd_filter" /\ fi' = 1]_vars
    /\ [][(pc' = "jd_check" /\ pc # "jd_check") =>
            pc = "jd_filter" /\ fi' = fi /\ fi <= Len(ClickPlan)]_vars
    /\ [][(fi' # fi /\ pc # "jd_settle") =>
            fi' = fi + 1 /\ pc' = "jd_filter" /\ TerminalReturn]_vars
    /\ [][(pc' = "jd_settle" /\ pc # "jd_settle") =>
            pc = "jd_filter" /\ fi = Len(ClickPlan) + 1]_vars
    /\ [][(pc' = "jd_settle2" /\ pc # "jd_settle2") => pc = "jd_settle"]_vars
    /\ [][(pc' = "jd_cards" /\ pc # "jd_cards") => pc = "jd_settle2" /\ networkidle']_vars
    /\ [][(pc' = "jd_loop" /\ pc \in FilterPhase) => FALSE]_vars
    /\ [](pc \in FilterPhase =>
            ci = 0 /\ card = NoCard /\ pageOpen = 0 /\ job_list = <<>> /\ failedSeeds = {})

\* the second settlement wait is about to start after the calls on both requested
\* options have returned, the toggle being selected and the network idle
C21_Witness ==
    /\ pc = "jd_settle2"
    /\ seniorities = <<"JUNIOR", "JUNIOR">>
    /\ selected["JUNIOR"]
    /\ networkidle

\* a is b with some elements left out, the others in the same order
RECURSIVE IsSubseq(_, _)
IsSubseq(a, b) ==
    IF a = <<>> THEN TRUE
    ELSE IF b = <<>> THEN FALSE
    ELSE IF Head(a) = Head(b) THEN IsSubseq(Tail(a), Tail(b))
    ELSE IsSubseq(a, Tail(b))

\* the job URLs of the records, of the seeds and of the raw seeds, in list order
RecordUrls == [i \in 1..Len(job_list) |-> job_list[i].job_url]

SeedUrls == [i \in 1..Len(seeds) |-> seeds[i].job_url]

RawSeedUrls == [i \in 1..Len(rawSeeds) |-> rawSeeds[i].job_url]

\* C22: seeds are processed in the order harvested. At every moment, and so in
\* the returned list, the job URLs of the records are an order-preserving
\* subsequence of the cards read (JapanDev) or of the seeds (TokyoDev), and the
\* seeds keep the order in which their rows were read; the loops take the cards
\* and the seeds one by one in list order, and a detail page is opened only for
\* the card or seed the loop is at.
C22_OrderPreserved ==
    /\ [](site = "japandev" => IsSubseq(RecordUrls, job_cards.urls))
    /\ [](site = "tokyodev" =>
            IsSubseq(RecordUrls, SeedUrls) /\ IsSubseq(SeedUrls, RawSeedUrls))
    /\ [][(site = "japandev" /\ ci' # ci) =>
            /\ ci' = ci + 1
            /\ job_cards'.urls = Append(job_cards.urls, card'.job_url)
            /\ Len(job_cards'.urls) = ci']_vars
    /\ [][si' # si => si' = si + 1 /\ pc = "td_close"]_vars
    /\ [][pageOpen' > pageOpen =>
            IF site = "japandev"
            THEN card.job_url = job_cards.urls[ci] /\ ci = Len(job_cards.urls)
            ELSE si \in 1..Len(seeds) /\ si' = si]_vars
    /\ [][job_list' # job_list =>
            \E rec \in {job_list'[Len(job_list')]} :
                /\ job_list' = Append(job_list, rec)
                /\ rec.job_url = (IF site = "japandev" THEN card.job_url
                                  ELSE seeds[si].job_url)]_vars

\* a JapanDev scrape returned two records with different URLs, in card order
C22_Witness ==
    /\ site = "japandev"
    /\ pc = "done"
    /\ ReturnedNormally
    /\ Len(job_list) = 2
    /\ job_list[1].job_url # job_list[2].job_url
    /\ RecordUrls = job_cards.urls

\* the positions at which a detail page is about to be opened or navigated
OpeningDetail == pc \in {"jd_open", "jd_goto", "td_open", "td_goto"}

\* C23: enrichment stops as soon as the cap is reached. A detail page is opened
\* or navigated only while job_list holds fewer than results_wanted records; once
\* the count equals results_wanted no page is opened any more and the loop ends at
\* its next cap test; with results_wanted = 0 no detail page is ever opened (and
\* so none fails to load).
C23_StopAtCap ==
    /\ [](OpeningDetail => Len(job_list) < results_wanted)
    /\ [][pageOpen' > pageOpen => Len(job_list) < results_wanted]_vars
    /\ [][(pc \in {"jd_loop", "td_loop"} /\ pc' # pc /\ Len(job_list) = results_wanted) =>
            pc' = "task" /\ outcome' = "returned" /\ job_list' = job_list]_vars
    /\ [](results_wanted = 0 => pageOpen = 0 /\ ~OpeningDetail /\ failedSeeds = {})

\* a JapanDev scrape ended at the cap test with one record for a wanted count of
\* one while the listing still had a card that was never read
C23_Witness ==
    /\ site = "japandev"
    /\ pc = "done"
    /\ exitWhy = "cap"
    /\ results_wanted = 1
    /\ Len(job_list) = 1
    /\ ci = 1

\* the remote-category filters other than "no remote"
RemoteCategory == {"PARTIAL_REMOTE", "FULL_REMOTE", "ANYWHERE_IN_JAPAN", "WORLDWIDE"}

\* the options the request names explicitly
ExplicitOptions ==
    {remote_work[i] : i \in 1..Len(remote_work)} \cup {seniorities[i] : i \in 1..Len(seniorities)}

\* the remote flag is set and no explicit remote-work option is given
RemoteOnly == is_remote /\ remote_work = <<>>

\* the toggles the synchronizer has to work on for the request
ToApply == IF RemoteOnly THEN ExplicitOptions \cup RemoteCategory ELSE ExplicitOptions

\* C24: remote expansion. With the remote flag set and no explicit remote-work
\* option, _click_filter is called on each of partial-remote, full-remote,
\* anywhere-in-Japan and worldwide, after the explicit options, and the no-remote
\* toggle is never worked on nor clicked; with explicit remote-work options, or
\* without the flag, _click_filter is called on the explicit options only. No
\* toggle outside these is ever clicked.
C24_RemoteExpansion ==
    /\ (pc \in {"jd_check", "jd_click", "jd_verify"}) => CurId \in ToApply
    /\ RemoteOnly =>
          /\ ~pending["NO_REMOTE"] /\ ~selected["NO_REMOTE"]
          /\ pc \in {"jd_check", "jd_click", "jd_verify"} => CurId # "NO_REMOTE"
    /\ \A id \in FilterIds \ ToApply : ~pending[id] /\ ~selected[id]
    /\ pc = "jd_settle" =>
          /\ fi - 1 = Len(remote_work) + Len(seniorities)
                        + (IF RemoteOnly THEN Cardinality(RemoteCategory) ELSE 0)
          /\ {ClickPlan[i].value : i \in 1..(fi - 1)} = ToApply
          /\ \A i \in 1..(Len(remote_work) + Len(seniorities)) :
                ClickPlan[i].value \in ExplicitOptions

\* under the remote flag alone the four calls have returned, the worldwide toggle
\* having been clicked last, and the settlement wait is about to start
C24_Witness ==
    /\ pc = "jd_settle"
    /\ is_remote
    /\ remote_work = <<>>
    /\ fi = 5
    /\ pending["WORLDWIDE"]
    /\ selected["PARTIAL_REMOTE"]

\* the amounts of the magnitude-suffixed numeric tokens of the parsed text
SuffixedAmounts == {Millions(SuffixedTokens[i]) : i \in 1..Len(SuffixedTokens)}

\* C25: only numeric tokens that precede a magnitude suffix count. For a text in
\* which no numeric token is followed by the suffix M (plain digits such as
\* "500000") either parser returns none, and the minimum and the maximum amount
\* of a returned compensation are amounts of M-suffixed tokens of the text.
C25_OnlySuffixedTokensCount ==
    (comp.by # None /\ salary_text.given) =>
        /\ SuffixedTokens = <<>> => comp.ret.kind = "none"
        /\ comp.ret.kind = "comp" =>
              /\ comp.ret.min_amount \in SuffixedAmounts
              /\ comp.ret.max_amount \subseteq SuffixedAmounts

\* a value was yielded: neither None nor the empty string
Present(v) == v # None /\ v # ""

\* r is the detail value d when present, else the hint h when present, else the
\* default (for a field without default: else nothing)
Prefers(r, d, h, default) ==
    IF Present(d) THEN r = d
    ELSE IF Present(h) THEN r = h
    ELSE IF Present(default) THEN r = default
    ELSE ~Present(r)

\* C26: merge precedence. In the record built for an item, each of title, company
\* name, location text, salary text and posted date is the detail-page value when
\* the detail page yielded one, otherwise the hint of the card or seed for that
\* field, otherwise the site default (location "Japan" / "Tokyo", posted date
\* today); a record built after the detail page failed holds hints and defaults.
C26_MergePrecedence ==
    pc = "merged" =>
        LET r == job_list[1]
        IN IF site = "tokyodev"
           THEN /\ Prefers(r.title, detail.h1, SlugTitle(card.job_url), None)
                /\ Prefers(r.company_name, detail.company_name, card.company_name, None)
                /\ Prefers(r.salary_text, detail.salary_text, card.salary_text_hint, None)
                /\ r.location = "Tokyo"
                /\ r.date_posted = Today
           ELSE IF failedSeeds = {}
           THEN /\ Prefers(r.title, detail.title, card.title, None)
                /\ Prefers(r.company_name, detail.company_name, card.company_name, None)
                /\ Prefers(r.location, detail.location_text, None, "Japan")
                /\ Prefers(r.salary_text, detail.salary_text, None, None)
                /\ Prefers(r.date_posted, detail.date_posted, None, Today)
           ELSE /\ Prefers(r.title, None, card.title, None)
                /\ Prefers(r.company_name, None, card.company_name, None)
                /\ r.location = "Japan"
                /\ ~Present(r.salary_text)
                /\ r.date_posted = Today

\* the cards read so far that had a resolvable detail URL
CardsWithUrl == {i \in 1..Len(job_cards.urls) : job_cards.urls[i] # NoUrl}

\* C27: a listing container without a resolvable detail URL is skipped and is not
\* fatal. The step that reads such a JapanDev card or TokyoDev row goes back to
\* the head of its loop with the scrape still running, opens no page and changes
\* neither the seeds nor the records (the lists the caps are tested on); no seed
\* and no record is without URL, and there are no more records than cards with a
\* URL. The JapanDev card list is the secondary selector's exactly when the
\* primary selector matched no element.
C27_SkipWithoutUrl ==
    /\ [][(site = "japandev" /\ ci' = ci + 1 /\ card'.job_url = NoUrl) =>
            /\ pc' = "jd_loop"
            /\ outcome' = "running"
            /\ UNCHANGED <<job_list, pageOpen, failedSeeds>>]_vars
    /\ [][(pc = "td_row" /\ ri' = ri + 1 /\ rawSeeds' = rawSeeds) =>
            /\ pc' = "td_row"
            /\ outcome' = "running"
            /\ UNCHANGED <<seeds, job_list, pageOpen, failedSeeds>>]_vars
    /\ [](/\ \A i \in 1..Len(job_list) : job_list[i].job_url # NoUrl
          /\ \A i \in 1..Len(rawSeeds) : rawSeeds[i].job_url # NoUrl
          /\ \A i \in 1..Len(seeds) : seeds[i].job_url # NoUrl
          /\ site = "japandev" => Len(job_list) <= Cardinality(CardsWithUrl))
    /\ [](job_cards # NoCards =>
            (job_cards.selector = SecondarySelector) = ~job_cards.primary_matched)

\* the primary selector matched nothing; of the secondary selector's cards the
\* first had no URL and the second gave the one record that was wanted
C27_Witness ==
    /\ site = "japandev"
    /\ pc = "done"
    /\ results_wanted = 1
    /\ job_cards.selector = SecondarySelector
    /\ Len(job_cards.urls) = 2
    /\ job_cards.urls[1] = NoUrl
    /\ Len(job_list) = 1
    /\ job_list[1].job_url = job_cards.urls[2]

\* C28: from the moment a submission is accepted, a status query for its task
\* identifier never answers not-found. The identifier of every accepted
\* submission, queued, scraping or ended, has an entry in the job store, the one
\* returned with the 202 answer included; no step of any operation removes an
\* entry, so the number of entries never decreases.
C28_AcceptedNeverNotFound ==
    /\ [](/\ \A t \in DOMAIN tasks : t \in DOMAIN JOB_STORE /\ StatusOf(t).code # 404
          /\ (response.op = "submit" /\ response.code = 202) =>
                /\ response.task_id \in DOMAIN JOB_STORE
                /\ StatusOf(response.task_id).code # 404
          /\ (response.op = "status" /\ response.asked \in DOMAIN tasks) =>
                response.code # 404
          /\ response.op = "health" =>
                response.jobs_in_memory <= Cardinality(DOMAIN JOB_STORE))
    /\ [][/\ DOMAIN JOB_STORE \subseteq DOMAIN JOB_STORE'
          /\ Cardinality(DOMAIN JOB_STORE') >= Cardinality(DOMAIN JOB_STORE)]_vars

\* a status query for a task that is still queued was answered "processing"
C28_Witness ==
    /\ response.op = "status"
    /\ response.code = 200
    /\ response.asked \in DOMAIN tasks
    /\ tasks[response.asked].pc = "queued"
    /\ "status" \in DOMAIN response
    /\ response.status = "processing"

\* the entry is one of the three whole entries
WholeEntry(e) ==
    \/ e = [status |-> "processing"]
    \/ /\ e.status = "completed"
       /\ DOMAIN e = {"status", "count", "data"}
       /\ e.count = Len(e.data)
    \/ /\ e.status = "failed"
       /\ DOMAIN e = {"status", "error"}

\* C29: a status query interleaved with the end of a background task sees the
\* processing entry or the whole terminal entry. Every entry of the store is at
\* every moment whole; an entry changes in one step, from "processing" to a whole
\* completed or failed entry, and not again; and every status answer about an
\* existing entry is "processing", the whole completed entry, or failed with the
\* error.
C29_NoPartialEntry ==
    /\ [](\A t \in DOMAIN JOB_STORE : WholeEntry(JOB_STORE[t]))
    /\ [][\A t \in DOMAIN JOB_STORE :
            JOB_STORE'[t] # JOB_STORE[t] =>
                /\ JOB_STORE[t] = [status |-> "processing"]
                /\ JOB_STORE'[t].status \in {"completed", "failed"}
                /\ WholeEntry(JOB_STORE'[t])]_vars
    /\ [][(response' # response /\ response'.op = "status" /\ response'.code # 404) =>
            /\ response'.asked \in DOMAIN JOB_STORE
            /\ \/ /\ response'.code = 200
                  /\ "status" \in DOMAIN response'
                  /\ response'.status = "processing"
                  /\ JOB_STORE[response'.asked] = [status |-> "processing"]
               \/ /\ response'.code = 200
                  /\ "job" \in DOMAIN response'
                  /\ WholeEntry(response'.job)
                  /\ response'.job = JOB_STORE[response'.asked]
               \/ /\ response'.code = 500
                  /\ response'.error = JOB_STORE[response'.asked].error]_vars

\* a status query was answered "processing" for a task whose scrape had already
\* returned but whose outcome was not stored yet, while another task's entry was
\* completed
C29_Witness ==
    /\ response.op = "status"
    /\ response.code = 200
    /\ "status" \in DOMAIN response
    /\ response.asked \in DOMAIN tasks
    /\ tasks[response.asked].pc = "scraped"
    /\ tasks[response.asked].result.how = "returned"
    /\ \E t \in DOMAIN tasks : JOB_STORE[t].status = "completed" /\ JOB_STORE[t].count = 2

\* some option string of the request matches no member of its enum
HasBadValue == \E i \in 1..Len(ClickPlan) : ClickPlan[i].value = BadOption

\* the task's entry is the failed entry carrying that error, and no record was made
FailedWith(error) ==
    /\ JOB_STORE[ScrapeTask] = [status |-> "failed", error |-> error]
    /\ outcome = "raised"
    /\ exitWhy = error
    /\ job_list = <<>>

====
